---- MODULE Spec2Model ----
(***************************************************************************)
(* GEA Portal (src/app.py): the project/phase engine, its access control,   *)
(* the fee split computed at project creation and the reminder scan.        *)
(*                                                                          *)
(* Request handlers are actions.  Spec runs the handlers one request at a   *)
(* time; SpecAccess adds the read-only routes and records what each         *)
(* request returned; SpecFee applies the fee computation to a range of      *)
(* entered totals; SpecRem interleaves the steps of several requests that   *)
(* run check_and_send_reminders against one database; SpecTx takes the      *)
(* commits of create_project and of the scan one by one; SpecUsers has the  *)
(* accounts; SpecRoles has a user of every role; SpecAdv interleaves        *)
(* advance_phase requests between their read and their commit; SpecRearm   *)
(* runs the scan over a due date that is computed again; SpecTpl has the    *)
(* template library; SpecCreate interleaves create_project requests between *)
(* their count and their INSERT; SpecAssign has the three assignment        *)
(* relations; SpecToggle has toggle_checklist over two projects.            *)
(***************************************************************************)
EXTENDS Integers, Sequences, FiniteSets, TLC

(***************************************************************************)
(* Bounds of the model.                                                     *)
(***************************************************************************)
MaxProjects == 1
\* rows beyond the project itself that a run adds: documents, custom checklist
\* items, completed checklist items, notifications and chat messages, together
MaxAuxRows == 1
\* successful advances by users outside GEA in one run
MaxGlabAdvances == 1
\* checklist items a toggle request may name: ids 1..MaxToggleItemId
MaxToggleItemId == 2
\* the largest whole amount entered as total_fees
MaxTotalFees == 120
\* the reminder scan: the last day of the calendar, and how many requests and
\* browser sessions there are
MaxDay == 2
\* how many User and Client rows there may be
MaxUsers == 4
MaxClients == 3
\* how many PhaseLog rows interleaved advance_phase requests may write
MaxPhaseLogs == 4
NumRequests == 2
NumSessions == 2

(***************************************************************************)
(* Python floats (IEEE-754 binary64), for the non-negative finite values    *)
(* the fee computation produces.  A value is zero or M * 2^e with           *)
(* 2^52 <= M < 2^53; M is held as 14-bit limbs, least significant first,    *)
(* because a product of two significands needs 106 bits.                    *)
(***************************************************************************)
LimbBits == 14
Base == 2^LimbBits
Precision == 53

RECURSIVE Carry(_, _)
Carry(cols, c) ==
    IF cols = <<>>
    THEN IF c = 0 THEN <<>> ELSE <<c % Base>> \o Carry(<<>>, c \div Base)
    ELSE LET t == Head(cols) + c
         IN  <<t % Base>> \o Carry(Tail(cols), t \div Base)

Limb(a, i) == IF i >= 1 /\ i <= Len(a) THEN a[i] ELSE 0

RECURSIVE ColSum(_, _, _, _)
\* sum of a[i] * b[k + 1 - i] for i in 1..n
ColSum(a, b, k, n) ==
    IF n = 0 THEN 0 ELSE Limb(a, n) * Limb(b, k + 1 - n) + ColSum(a, b, k, n - 1)

BigMul(a, b) ==
    IF Len(a) = 0 \/ Len(b) = 0 THEN <<>>
    ELSE Carry([k \in 1..(Len(a) + Len(b) - 1) |-> ColSum(a, b, k, Len(a))], 0)

BigAdd(a, b) ==
    LET n == IF Len(a) > Len(b) THEN Len(a) ELSE Len(b)
    IN  Carry([k \in 1..n |-> Limb(a, k) + Limb(b, k)], 0)

\* bit i (0 = least significant) of the number held in limbs a
Bit(a, i) == IF i < 0 THEN 0 ELSE (Limb(a, (i \div LimbBits) + 1) \div 2^(i % LimbBits)) % 2

RECURSIVE HighBit(_, _)
\* number of significant bits among bits 0..n-1 of a
HighBit(a, n) == IF n = 0 THEN 0 ELSE IF Bit(a, n - 1) = 1 THEN n ELSE HighBit(a, n - 1)

BitLen(a) == HighBit(a, Len(a) * LimbBits)

RECURSIVE BitsValue(_, _, _)
\* value of bits from..from+n-1 of a, as one limb
BitsValue(a, from, n) ==
    IF n = 0 THEN 0 ELSE Bit(a, from) + 2 * BitsValue(a, from + 1, n - 1)

\* the limbs of floor(a * 2^s), s of either sign, in nl limbs
Shift(a, s, nl) == [j \in 1..nl |-> BitsValue(a, LimbBits * (j - 1) - s, LimbBits)]

LimbsFor(nbits) == (nbits + LimbBits - 1) \div LimbBits

FZero == [m |-> <<>>, e |-> 0]

\* round the exact value a * 2^e to the nearest float, ties to even
RoundFloat(a, e) ==
    LET L == BitLen(a)
    IN  IF L = 0 THEN FZero
        ELSE IF L <= Precision
        THEN [m |-> Shift(a, Precision - L, LimbsFor(Precision)), e |-> e - (Precision - L)]
        ELSE LET s      == L - Precision
                 q      == Shift(a, -s, LimbsFor(Precision))
                 half   == Bit(a, s - 1) = 1
                 sticky == \E i \in 0..(s - 2) : Bit(a, i) = 1
                 up     == half /\ (sticky \/ Bit(q, 0) = 1)
                 q1     == IF up THEN BigAdd(q, <<1>>) ELSE q
             IN  IF BitLen(q1) > Precision
                 THEN [m |-> Shift(q1, -1, LimbsFor(Precision)), e |-> e + s + 1]
                 ELSE [m |-> Shift(q1, 0, LimbsFor(Precision)), e |-> e + s]

FloatMul(x, y) ==
    IF x = FZero \/ y = FZero THEN FZero
    ELSE RoundFloat(BigMul(x.m, y.m), x.e + y.e)

FloatAdd(x, y) ==
    IF x = FZero THEN y
    ELSE IF y = FZero THEN x
    ELSE LET e  == IF x.e < y.e THEN x.e ELSE y.e
             nl == LimbsFor(Precision + 1 + (x.e - e) + (y.e - e))
         IN  RoundFloat(BigAdd(Shift(x.m, x.e - e, nl), Shift(y.m, y.e - e, nl)), e)

\* float(request.form.get('total_fees') or 0) for an entered whole amount n
FloatOfForm(n) == RoundFloat(<<n % Base, n \div Base>>, 0)

\* the literals 0.15 = 0x1.3333333333333p-3 and 0.85 = 0x1.b333333333333p-1
GeaFeeRate == [m |-> <<13107, 3276, 13107, 1228>>, e |-> -55]
GlabRevenueRate == [m |-> <<13107, 3276, 13107, 1740>>, e |-> -53]

GeaFeeOf(total) == FloatMul(total, GeaFeeRate)
GlabRevenueOf(total) == FloatMul(total, GlabRevenueRate)

(***************************************************************************)
(* The database after setup: the GEA administrator of init_db, two GLABs,   *)
(* a GLAB administrator of the first, an assessor of the second, and one    *)
(* client per GLAB.  None stands for a NULL column.                         *)
(***************************************************************************)
None == 0
NumPhases == 8
Phases == 1..NumPhases

\* len(PHASES[p]['default_checklist']) and len(PHASES[p]['gea_review_checklist'])
DefaultChecklistLen == <<8, 8, 9, 12, 15, 9, 10, 8>>
GeaReviewChecklistLen == <<4, 4, 4, 5, 5, 5, 6, 4>>
\* len(PHASES[p]['documents'])
DocumentSlots == <<2, 3, 2, 3, 3, 2, 2, 2>>

\* the values of User.role
Roles == {"gea_admin", "gea_staff", "glab_admin", "glab_assessor",
          "technical_expert", "cert_committee", "client_user"}
GeaStatuses == {"pending", "approved", "changes_requested", "denied"}
ReviewActions == {"approved", "changes_requested", "denied"}

VARIABLES
    users,          \* User rows, by id
    glabs,          \* GLAB rows, by id
    clients,        \* Client rows, by id
    projects,       \* Project rows, by id
    checklist,      \* ChecklistItem rows, by id
    phase_logs,     \* PhaseLog rows, by id
    documents,      \* Document rows, by id
    assessors,      \* project_assessors: pairs <<project_id, user_id>>
    notifications,  \* Notification rows, by id
    messages,       \* ChatMessage rows, by id
    resp,           \* what the last GET request returned
    today,          \* datetime.utcnow().date(), as a day number
    reminders,      \* ScheduledReminder rows, by id
    sessions,       \* session['last_reminder_check'] of each browser session
    reqs,           \* the requests in flight that run the reminder scan
    inflight,       \* the advance_phase requests between their read and their commit
    templates,      \* PhaseTemplate rows, by id
    technical_experts,  \* project_technical_experts: pairs <<project_id, user_id>>
    committee_members,  \* project_committee_members: pairs <<project_id, user_id>>
    creating        \* the create_project requests between their count and their INSERT

\* what the handlers that run as one step leave alone
remvars == <<today, reminders, sessions, reqs, inflight,
             templates, technical_experts, committee_members, creating>>

vars == <<users, glabs, clients, projects, checklist, phase_logs, documents,
          assessors, notifications, messages, resp, remvars>>

InitUsers == <<
    [username |-> "admin", email |-> "admin@gea.org", role |-> "gea_admin",
     glab_id |-> None, is_active |-> TRUE, recertification_due |-> None],
    [username |-> "lab1", email |-> "lab1@gea.org", role |-> "glab_admin",
     glab_id |-> 1, is_active |-> TRUE, recertification_due |-> None],
    [username |-> "assessor2", email |-> "assessor2@gea.org", role |-> "glab_assessor",
     glab_id |-> 2, is_active |-> TRUE, recertification_due |-> None] >>

\* no handler sets next_payment_due or recertification_due: rows made through
\* the portal hold NULL there, and the reminder scan finds nothing to do
InitGlabs == <<
    [license_number |-> "L1", status |-> "active", license_type |-> "annual",
     last_payment_date |-> None, next_payment_due |-> None],
    [license_number |-> "L2", status |-> "active", license_type |-> "annual",
     last_payment_date |-> None, next_payment_due |-> None] >>

Requests == 1..NumRequests
Sessions == 1..NumSessions
IdleAdvance == [pc |-> "idle", user |-> None, project |-> None, old_phase |-> None]
IdleCreate == [pc |-> "idle", row |-> None]
IdleRequest == [pc |-> "idle", session |-> None, today |-> None, work |-> <<>>,
                existing |-> None, recipients |-> <<>>, pending |-> <<>>, dirty |-> {}]

InitClients == << [glab_id |-> 1, created_by |-> 1], [glab_id |-> 2, created_by |-> 1] >>

Init ==
    /\ users = InitUsers
    /\ glabs = InitGlabs
    /\ clients = InitClients
    /\ projects = <<>>
    /\ checklist = <<>>
    /\ phase_logs = <<>>
    /\ documents = <<>>
    /\ assessors = {}
    /\ notifications = <<>>
    /\ messages = <<>>
    /\ resp = [op |-> "none", user |-> None, target |-> None, served |-> FALSE, rows |-> {}]
    /\ today = 1
    /\ reminders = <<>>
    /\ sessions = [s \in Sessions |-> None]
    /\ reqs = [r \in Requests |-> IdleRequest]
    /\ inflight = [r \in Requests |-> IdleAdvance]
    /\ templates = <<>>
    /\ technical_experts = {}
    /\ committee_members = {}
    /\ creating = [r \in Requests |-> IdleCreate]

UserIds == DOMAIN users
GlabIds == DOMAIN glabs
ClientIds == DOMAIN clients
ProjectIds == DOMAIN projects

\* User.is_gea, User.is_gea_admin
is_gea(u) == users[u].role \in {"gea_admin", "gea_staff"}
is_gea_admin(u) == users[u].role = "gea_admin"

\* current_user.assigned_projects (backref of Project.assessors)
assigned_projects(u) == {p \in ProjectIds : <<p, u>> \in assessors}

\* a request that commits nothing and redirects with a flash message (or a 404)
NoWrite == UNCHANGED vars

\* a GET request that commits nothing
NoDbWrite == UNCHANGED <<users, glabs, clients, projects, checklist, phase_logs, documents,
                         assessors, notifications, messages, remvars>>

\* the body of a GET response: the route, who asked, for which row, whether the
\* page was served, and the ids of the rows it lists
Reply(op, u, target, served, rows) ==
    resp' = [op |-> op, user |-> u, target |-> target, served |-> served, rows |-> rows]

(***************************************************************************)
(* Helpers.                                                                 *)
(***************************************************************************)
\* generate_reference_number: the GLAB's license number and 1 + the number of
\* the GLAB's projects created in the current year
generate_reference_number(g) ==
    [license_number |-> glabs[g].license_number,
     count |-> Cardinality({p \in ProjectIds : projects[p].glab_id = g}) + 1]

RECURSIVE PhaseItems(_, _, _)
\* the rows create_default_checklists adds for one phase, order 0..n-1
PhaseItems(pid, ph, n) ==
    IF n = 0 THEN <<>>
    ELSE Append(PhaseItems(pid, ph, n - 1),
                [project_id |-> pid, phase_number |-> ph, is_required |-> TRUE,
                 is_custom |-> FALSE, is_completed |-> FALSE, completed_by |-> None,
                 order |-> n - 1])

RECURSIVE DefaultItems(_, _)
DefaultItems(pid, ph) ==
    IF ph = 0 THEN <<>>
    ELSE DefaultItems(pid, ph - 1) \o PhaseItems(pid, ph, DefaultChecklistLen[ph])

\* create_default_checklists, were the last phase of PHASES left out
create_default_checklists_SkipsLastPhase(pid) ==
    checklist' = checklist \o DefaultItems(pid, NumPhases - 1)

create_default_checklists(pid) == checklist' = checklist \o DefaultItems(pid, NumPhases)

\* the Notification row create_notification adds; about stands for what the
\* title and message say (the project, or the days left)
Notification(uid, type, about, link_type, link_id) ==
    [user_id |-> uid, notification_type |-> type, about |-> about,
     link_type |-> link_type, link_id |-> link_id]

\* create_notification: one committed Notification row
create_notification(uid, type, about, link_type, link_id) ==
    notifications' = Append(notifications, Notification(uid, type, about, link_type, link_id))

(***************************************************************************)
(* Request handlers.  u is current_user; the other parameters are the URL   *)
(* and form values.                                                         *)
(***************************************************************************)
\* User.query.filter_by(username=username).first()
UserByName(username) ==
    LET hits == {i \in UserIds : users[i].username = username}
    IN  IF hits = {} THEN None ELSE CHOOSE i \in hits : \A j \in hits : i <= j

create_user(u, username, email, role, glab_id) ==
    IF ~is_gea_admin(u)
    THEN NoWrite
    ELSE IF UserByName(username) # None
    THEN NoWrite
    ELSE IF {i \in UserIds : users[i].email = email} # {}
    THEN NoWrite
    ELSE /\ users' = Append(users,
                [username |-> username, email |-> email, role |-> role, glab_id |-> glab_id,
                 is_active |-> TRUE, recertification_due |-> None])
         /\ UNCHANGED <<glabs, clients, projects, checklist, phase_logs, documents,
                        assessors, notifications, messages, resp, remvars>>

\* toggle_user, were the caller's own account not refused
toggle_user_AllowsSelf(u, user_id) ==
    IF ~is_gea_admin(u)
    THEN NoWrite
    ELSE IF user_id \notin UserIds
    THEN NoWrite
    ELSE /\ users' = [users EXCEPT ![user_id].is_active = ~@]
         /\ UNCHANGED <<glabs, clients, projects, checklist, phase_logs, documents,
                        assessors, notifications, messages, resp, remvars>>

toggle_user(u, user_id) ==
    IF ~is_gea_admin(u)
    THEN NoWrite
    ELSE IF user_id \notin UserIds
    THEN NoWrite
    ELSE IF user_id = u
    THEN NoWrite
    ELSE /\ users' = [users EXCEPT ![user_id].is_active = ~@]
         /\ UNCHANGED <<glabs, clients, projects, checklist, phase_logs, documents,
                        assessors, notifications, messages, resp, remvars>>

\* login, were is_active not tested
login_IgnoresActive(username, password_ok) ==
    LET user == UserByName(username)
    IN  IF user # None /\ password_ok
        THEN Reply("login", user, user, TRUE, {}) /\ NoDbWrite
        ELSE Reply("login", None, user, FALSE, {}) /\ NoDbWrite

\* login, from a browser that is not logged in; password_ok is what
\* check_password returns.  The reply names the user who is now logged in
\* and, as target, the row the username matched.
login(username, password_ok) ==
    LET user == UserByName(username)
    IN  IF user # None /\ password_ok /\ users[user].is_active
        THEN Reply("login", user, user, TRUE, {}) /\ NoDbWrite
        ELSE Reply("login", None, user, FALSE, {}) /\ NoDbWrite

create_client(u, form_glab) ==
    LET glab_id == IF is_gea(u) THEN form_glab ELSE users[u].glab_id
    IN  /\ clients' = Append(clients, [glab_id |-> glab_id, created_by |-> u])
        /\ UNCHANGED <<users, glabs, projects, checklist, phase_logs, documents,
                       assessors, notifications, messages, resp, remvars>>

\* the Project row create_project adds
NewProject(u, glab_id, form_client, total_fees) ==
    LET total == FloatOfForm(total_fees)
    IN  [reference_number |-> generate_reference_number(glab_id),
         glab_id |-> glab_id,
         client_id |-> form_client,
         current_phase |-> 1,
         gea_status |-> "pending",
         gea_reviewed_by |-> None,
         total_assessment_fees |-> total,
         gea_fee |-> GeaFeeOf(total),
         glab_revenue |-> GlabRevenueOf(total),
         created_by |-> u]

\* the PhaseLog row create_project adds
CreatedLog(pid, u) ==
    [project_id |-> pid, from_phase |-> None, to_phase |-> 1,
     action |-> "created", performed_by |-> u]

\* create_project, run to its end with no other request in between
create_project(u, form_glab, form_client, total_fees) ==
    IF users[u].role = "glab_assessor"
    THEN NoWrite
    ELSE LET glab_id == IF is_gea(u) THEN form_glab ELSE users[u].glab_id
             pid     == Len(projects) + 1
         IN  /\ glab_id \in GlabIds
             /\ projects' = Append(projects, NewProject(u, glab_id, form_client, total_fees))
             /\ create_default_checklists(pid)
             /\ phase_logs' = Append(phase_logs, CreatedLog(pid, u))
             /\ UNCHANGED <<users, glabs, clients, documents, assessors, notifications, messages, resp, remvars>>

\* create_project commits three times; these are its three transactions, for
\* the specifications in which other requests run between them.
\* db.session.add(project); db.session.commit()
create_project_add(u, form_glab, form_client, total_fees) ==
    IF users[u].role = "glab_assessor"
    THEN NoWrite
    ELSE LET glab_id == IF is_gea(u) THEN form_glab ELSE users[u].glab_id
         IN  /\ glab_id \in GlabIds
             /\ projects' = Append(projects, NewProject(u, glab_id, form_client, total_fees))
             /\ UNCHANGED <<users, glabs, clients, checklist, phase_logs, documents, assessors,
                            notifications, messages, resp, remvars>>

\* the request that added project p is at create_default_checklists(project)
AtChecklists(p) ==
    /\ p \in ProjectIds
    /\ \A i \in DOMAIN checklist : checklist[i].project_id # p

\* the request that added project p is at the PhaseLog of its creation
AtCreatedLog(p) ==
    /\ p \in ProjectIds
    /\ {i \in DOMAIN checklist : checklist[i].project_id = p} # {}
    /\ \A i \in DOMAIN phase_logs : phase_logs[i].project_id # p

\* create_default_checklists(project), with its commit
create_project_checklists(p) ==
    /\ AtChecklists(p)
    /\ create_default_checklists(p)
    /\ UNCHANGED <<users, glabs, clients, projects, phase_logs, documents, assessors,
                   notifications, messages, resp, remvars>>

\* db.session.add(log); db.session.commit()
create_project_log(p) ==
    /\ AtCreatedLog(p)
    /\ phase_logs' = Append(phase_logs, CreatedLog(p, projects[p].created_by))
    /\ UNCHANGED <<users, glabs, clients, projects, checklist, documents, assessors,
                   notifications, messages, resp, remvars>>

\* advance_phase, were from_phase read after current_phase is incremented
advance_phase_LogAfterIncrement(u, p) ==
    IF p \notin ProjectIds
    THEN NoWrite
    ELSE IF ~is_gea(u) /\ users[u].glab_id # projects[p].glab_id
    THEN NoWrite
    ELSE IF projects[p].current_phase >= 8
    THEN NoWrite
    ELSE LET old_phase == projects[p].current_phase
         IN  /\ projects' = [projects EXCEPT ![p].current_phase = old_phase + 1]
             /\ phase_logs' = Append(phase_logs,
                    [project_id |-> p, from_phase |-> old_phase + 1, to_phase |-> old_phase + 1,
                     action |-> "advanced", performed_by |-> u])
             /\ UNCHANGED <<users, glabs, clients, checklist, documents,
                            assessors, notifications, messages, resp, remvars>>

\* advance_phase, were the last phase tested with > instead of >=
advance_phase_PastLastPhase(u, p) ==
    IF p \notin ProjectIds
    THEN NoWrite
    ELSE IF ~is_gea(u) /\ users[u].glab_id # projects[p].glab_id
    THEN NoWrite
    ELSE IF projects[p].current_phase > 8
    THEN NoWrite
    ELSE LET old_phase == projects[p].current_phase
         IN  /\ projects' = [projects EXCEPT ![p].current_phase = old_phase + 1]
             /\ phase_logs' = Append(phase_logs,
                    [project_id |-> p, from_phase |-> old_phase, to_phase |-> old_phase + 1,
                     action |-> "advanced", performed_by |-> u])
             /\ UNCHANGED <<users, glabs, clients, checklist, documents,
                            assessors, notifications, messages, resp, remvars>>

\* advance_phase, were the project's last PhaseLog row updated instead of one added
advance_phase_RewritesLog(u, p) ==
    IF p \notin ProjectIds
    THEN NoWrite
    ELSE IF ~is_gea(u) /\ users[u].glab_id # projects[p].glab_id
    THEN NoWrite
    ELSE IF projects[p].current_phase >= 8
    THEN NoWrite
    ELSE LET old_phase == projects[p].current_phase
         IN  /\ projects' = [projects EXCEPT ![p].current_phase = old_phase + 1]
             /\ phase_logs' = [phase_logs EXCEPT ![Len(phase_logs)] =
                    [project_id |-> p, from_phase |-> old_phase, to_phase |-> old_phase + 1,
                     action |-> "advanced", performed_by |-> u]]
             /\ UNCHANGED <<users, glabs, clients, checklist, documents,
                            assessors, notifications, messages, resp, remvars>>

\* advance_phase, were the GEA review reset for the new phase
advance_phase_ResetsReview(u, p) ==
    IF p \notin ProjectIds
    THEN NoWrite
    ELSE IF ~is_gea(u) /\ users[u].glab_id # projects[p].glab_id
    THEN NoWrite
    ELSE IF projects[p].current_phase >= 8
    THEN NoWrite
    ELSE LET old_phase == projects[p].current_phase
         IN  /\ projects' = [projects EXCEPT ![p].current_phase = old_phase + 1,
                                             ![p].gea_status = "pending"]
             /\ phase_logs' = Append(phase_logs,
                    [project_id |-> p, from_phase |-> old_phase, to_phase |-> old_phase + 1,
                     action |-> "advanced", performed_by |-> u])
             /\ UNCHANGED <<users, glabs, clients, checklist, documents,
                            assessors, notifications, messages, resp, remvars>>

advance_phase(u, p) ==
    IF p \notin ProjectIds
    THEN NoWrite
    ELSE IF ~is_gea(u) /\ users[u].glab_id # projects[p].glab_id
    THEN NoWrite
    ELSE IF projects[p].current_phase >= 8
    THEN NoWrite
    ELSE LET old_phase == projects[p].current_phase
         IN  /\ projects' = [projects EXCEPT ![p].current_phase = old_phase + 1]
             /\ phase_logs' = Append(phase_logs,
                    [project_id |-> p, from_phase |-> old_phase, to_phase |-> old_phase + 1,
                     action |-> "advanced", performed_by |-> u])
             /\ UNCHANGED <<users, glabs, clients, checklist, documents,
                            assessors, notifications, messages, resp, remvars>>

\* review_project, were a denied project sent back one phase
review_project_DeniedStepsBack(u, p, action) ==
    IF ~is_gea(u)
    THEN NoWrite
    ELSE IF p \notin ProjectIds
    THEN NoWrite
    ELSE IF action \in ReviewActions
    THEN /\ projects' = [projects EXCEPT ![p].gea_status = action, ![p].gea_reviewed_by = u,
                                    ![p].current_phase = IF action = "denied" /\ @ > 1 THEN @ - 1 ELSE @]
         /\ UNCHANGED <<users, glabs, clients, checklist, phase_logs, documents,
                        assessors, notifications, messages, resp, remvars>>
    ELSE NoWrite

review_project(u, p, action) ==
    IF ~is_gea(u)
    THEN NoWrite
    ELSE IF p \notin ProjectIds
    THEN NoWrite
    ELSE IF action \in ReviewActions
    THEN /\ projects' = [projects EXCEPT ![p].gea_status = action, ![p].gea_reviewed_by = u]
         /\ UNCHANGED <<users, glabs, clients, checklist, phase_logs, documents,
                        assessors, notifications, messages, resp, remvars>>
    ELSE NoWrite

toggle_checklist(u, p, item_id) ==
    IF item_id \notin DOMAIN checklist \/ p \notin ProjectIds
    THEN NoWrite
    ELSE IF is_gea(u)
    THEN NoWrite
    ELSE IF /\ p \notin assigned_projects(u) /\ users[u].role # "glab_admin"
            /\ users[u].glab_id # projects[p].glab_id
    THEN NoWrite
    ELSE LET done == ~checklist[item_id].is_completed
         IN  /\ checklist' = [checklist EXCEPT ![item_id].is_completed = done,
                                               ![item_id].completed_by = IF done THEN u ELSE None]
             /\ UNCHANGED <<users, glabs, clients, projects, phase_logs, documents,
                            assessors, notifications, messages, resp, remvars>>

\* db.func.max(ChecklistItem.order) over the project's items of one phase, or None
MaxOrder(p, ph) ==
    LET S == {checklist[i].order : i \in {j \in DOMAIN checklist :
                  checklist[j].project_id = p /\ checklist[j].phase_number = ph}}
    IN  IF S = {} THEN None ELSE CHOOSE m \in S : \A o \in S : o <= m

add_checklist_item(u, p, phase_number) ==
    IF ~is_gea_admin(u)
    THEN NoWrite
    ELSE IF p \notin ProjectIds
    THEN NoWrite
    ELSE /\ checklist' = Append(checklist,
                [project_id |-> p, phase_number |-> phase_number, is_required |-> TRUE,
                 is_custom |-> TRUE, is_completed |-> FALSE, completed_by |-> None,
                 order |-> MaxOrder(p, phase_number) + 1])
         /\ UNCHANGED <<users, glabs, clients, projects, phase_logs, documents,
                        assessors, notifications, messages, resp, remvars>>

\* upload_document, were the document filed under the phase that follows
upload_document_NextPhase(u, p, document_key, file_ok) ==
    IF p \notin ProjectIds
    THEN NoWrite
    ELSE IF users[u].role = "glab_assessor" /\ p \notin assigned_projects(u)
    THEN NoWrite
    ELSE IF ~file_ok
    THEN NoWrite
    ELSE /\ documents' = Append(documents,
                [project_id |-> p, phase_number |-> projects[p].current_phase + 1,
                 document_key |-> document_key, uploaded_by |-> u,
                 status |-> "pending", review_notes |-> None,
                 reviewed_by |-> None, reviewed_at |-> None])
         /\ UNCHANGED <<users, glabs, clients, projects, checklist, phase_logs,
                        assessors, notifications, messages, resp, remvars>>

upload_document(u, p, document_key, file_ok) ==
    IF p \notin ProjectIds
    THEN NoWrite
    ELSE IF users[u].role = "glab_assessor" /\ p \notin assigned_projects(u)
    THEN NoWrite
    ELSE IF ~file_ok
    THEN NoWrite
    ELSE /\ documents' = Append(documents,
                [project_id |-> p, phase_number |-> projects[p].current_phase,
                 document_key |-> document_key, uploaded_by |-> u,
                 status |-> "pending", review_notes |-> None,
                 reviewed_by |-> None, reviewed_at |-> None])
         /\ UNCHANGED <<users, glabs, clients, projects, checklist, phase_logs,
                        assessors, notifications, messages, resp, remvars>>

\* review_document, were it declared without @gea_required
review_document_NoGeaRequired(u, d, action) ==
    IF FALSE
    THEN NoWrite
    ELSE IF d \notin DOMAIN documents
    THEN NoWrite
    ELSE IF action \in ReviewActions
    THEN /\ documents' = [documents EXCEPT ![d].status = action,
                                            ![d].review_notes = "notes",
                                            ![d].reviewed_by = u,
                                            ![d].reviewed_at = today]
         /\ UNCHANGED <<users, glabs, clients, projects, checklist, phase_logs,
                        assessors, notifications, messages, resp, remvars>>
    ELSE NoWrite

review_document(u, d, action) ==
    IF ~is_gea(u)
    THEN NoWrite
    ELSE IF d \notin DOMAIN documents
    THEN NoWrite
    ELSE IF action \in ReviewActions
    THEN /\ documents' = [documents EXCEPT ![d].status = action,
                                            ![d].review_notes = "notes",
                                            ![d].reviewed_by = u,
                                            ![d].reviewed_at = today]
         /\ UNCHANGED <<users, glabs, clients, projects, checklist, phase_logs,
                        assessors, notifications, messages, resp, remvars>>
    ELSE NoWrite

assign_assessor(u, p, assessor_id) ==
    IF p \notin ProjectIds
    THEN NoWrite
    ELSE IF users[u].role = "glab_admin" /\ projects[p].glab_id # users[u].glab_id
    THEN NoWrite
    ELSE IF ~is_gea(u) /\ users[u].role # "glab_admin"
    THEN NoWrite
    ELSE IF assessor_id \notin UserIds
    THEN NoWrite
    ELSE IF users[assessor_id].glab_id # projects[p].glab_id
    THEN NoWrite
    ELSE IF <<p, assessor_id>> \notin assessors
    THEN /\ assessors' = assessors \cup {<<p, assessor_id>>}
         /\ create_notification(assessor_id, "assessor_assignment", p, "project", p)
         /\ UNCHANGED <<users, glabs, clients, projects, checklist, phase_logs,
                        documents, messages, resp, remvars>>
    ELSE NoWrite

remove_assessor(u, p, assessor_id) ==
    IF p \notin ProjectIds
    THEN NoWrite
    ELSE IF users[u].role = "glab_admin" /\ projects[p].glab_id # users[u].glab_id
    THEN NoWrite
    ELSE IF ~is_gea(u) /\ users[u].role # "glab_admin"
    THEN NoWrite
    ELSE IF assessor_id \notin UserIds
    THEN NoWrite
    ELSE IF <<p, assessor_id>> \in assessors
    THEN /\ assessors' = assessors \ {<<p, assessor_id>>}
         /\ UNCHANGED <<users, glabs, clients, projects, checklist, phase_logs,
                        documents, notifications, messages, resp, remvars>>
    ELSE NoWrite

remove_assessor_by_id(u, p, user_id) ==
    IF p \notin ProjectIds
    THEN NoWrite
    ELSE IF ~is_gea(u) /\ users[u].role # "glab_admin"
    THEN NoWrite
    ELSE IF user_id \notin UserIds
    THEN NoWrite
    ELSE IF <<p, user_id>> \in assessors
    THEN /\ assessors' = assessors \ {<<p, user_id>>}
         /\ UNCHANGED <<users, glabs, clients, projects, checklist, phase_logs,
                        documents, notifications, messages, resp, remvars>>
    ELSE NoWrite

project_chat(u, p, method, message_text) ==
    IF p \notin ProjectIds
    THEN NoWrite
    ELSE IF users[u].role = "glab_assessor" /\ p \notin assigned_projects(u)
    THEN IF method = "GET" THEN Reply("project_chat", u, p, FALSE, {}) /\ NoDbWrite
                           ELSE NoWrite
    ELSE IF ~is_gea(u) /\ users[u].glab_id # projects[p].glab_id
    THEN IF method = "GET" THEN Reply("project_chat", u, p, FALSE, {}) /\ NoDbWrite
                           ELSE NoWrite
    ELSE IF method = "POST"
    THEN IF message_text # ""
         THEN /\ messages' = Append(messages,
                     [project_id |-> p, sender_id |-> u, is_read |-> FALSE])
              /\ UNCHANGED <<users, glabs, clients, projects, checklist, phase_logs,
                             documents, assessors, notifications, resp, remvars>>
         ELSE NoWrite
    ELSE \* GET: mark the others' messages read, then list the project's messages
         /\ UNCHANGED remvars
         /\ messages' = [m \in DOMAIN messages |->
                IF messages[m].project_id = p /\ messages[m].sender_id # u
                THEN [messages[m] EXCEPT !.is_read = TRUE] ELSE messages[m]]
         /\ Reply("project_chat", u, p, TRUE,
                  {m \in DOMAIN messages : messages[m].project_id = p})
         /\ UNCHANGED <<users, glabs, clients, projects, checklist, phase_logs,
                        documents, assessors, notifications, remvars>>

get_messages(u, p) ==
    IF p \notin ProjectIds
    THEN NoWrite
    ELSE /\ Reply("get_messages", u, p, TRUE,
                  {m \in DOMAIN messages : messages[m].project_id = p})
         /\ NoDbWrite

view_project(u, p) ==
    IF p \notin ProjectIds
    THEN NoWrite
    ELSE IF users[u].role = "glab_assessor"
    THEN IF p \notin assigned_projects(u)
         THEN Reply("view_project", u, p, FALSE, {}) /\ NoDbWrite
         ELSE Reply("view_project", u, p, TRUE, {p}) /\ NoDbWrite
    ELSE IF ~is_gea(u) /\ projects[p].glab_id # users[u].glab_id
    THEN Reply("view_project", u, p, FALSE, {}) /\ NoDbWrite
    ELSE Reply("view_project", u, p, TRUE, {p}) /\ NoDbWrite

view_client(u, c) ==
    IF c \notin ClientIds
    THEN NoWrite
    ELSE IF ~is_gea(u) /\ clients[c].glab_id # users[u].glab_id
    THEN Reply("view_client", u, c, FALSE, {}) /\ NoDbWrite
    ELSE Reply("view_client", u, c, TRUE, {c}) /\ NoDbWrite

view_glab(u, g) ==
    IF g \notin GlabIds
    THEN NoWrite
    ELSE IF ~is_gea(u) /\ users[u].glab_id # g
    THEN Reply("view_glab", u, g, FALSE, {}) /\ NoDbWrite
    ELSE Reply("view_glab", u, g, TRUE, {g}) /\ NoDbWrite

list_projects(u) ==
    /\ Reply("list_projects", u, None, TRUE,
             IF is_gea(u) THEN ProjectIds
             ELSE IF users[u].role = "glab_assessor" THEN assigned_projects(u)
             ELSE IF users[u].glab_id # None
                  THEN {p \in ProjectIds : projects[p].glab_id = users[u].glab_id}
             ELSE {})
    /\ NoDbWrite

list_clients(u) ==
    /\ Reply("list_clients", u, None, TRUE,
             IF is_gea(u) THEN ClientIds
             ELSE IF users[u].glab_id # None
                  THEN {c \in ClientIds : clients[c].glab_id = users[u].glab_id}
             ELSE {})
    /\ NoDbWrite

download_document(u, d) ==
    IF d \notin DOMAIN documents
    THEN NoWrite
    ELSE Reply("download_document", u, d, TRUE, {d}) /\ NoDbWrite

\* upload_template, were the old templates of the slot left active
upload_template_KeepsOld(u, phase_number, document_key, file_ok) ==
    IF ~is_gea_admin(u)
    THEN NoWrite
    ELSE IF ~file_ok
    THEN NoWrite
    ELSE /\ templates' = Append(templates,
                [phase_number |-> phase_number, document_key |-> document_key,
                 uploaded_by |-> u, is_active |-> TRUE])
         /\ UNCHANGED <<users, glabs, clients, projects, checklist, phase_logs, documents,
                        assessors, notifications, messages, resp, today, reminders,
                        sessions, reqs, inflight, technical_experts, committee_members, creating>>

\* upload_template (POST): the UPDATE of the slot's rows and the INSERT, one commit
upload_template(u, phase_number, document_key, file_ok) ==
    IF ~is_gea_admin(u)
    THEN NoWrite
    ELSE IF ~file_ok
    THEN NoWrite
    ELSE /\ templates' = Append(
                [i \in DOMAIN templates |->
                    IF /\ templates[i].phase_number = phase_number
                       /\ templates[i].document_key = document_key
                    THEN [templates[i] EXCEPT !.is_active = FALSE]
                    ELSE templates[i]],
                [phase_number |-> phase_number, document_key |-> document_key,
                 uploaded_by |-> u, is_active |-> TRUE])
         /\ UNCHANGED <<users, glabs, clients, projects, checklist, phase_logs, documents,
                        assessors, notifications, messages, resp, today, reminders,
                        sessions, reqs, inflight, technical_experts, committee_members, creating>>

\* assign_expert, were the role of the selected user not tested
assign_expert_AnyRole(u, p, expert_id) ==
    IF ~is_gea(u)
    THEN NoWrite
    ELSE IF p \notin ProjectIds
    THEN NoWrite
    ELSE IF expert_id \notin UserIds
    THEN NoWrite
    ELSE IF <<p, expert_id>> \notin technical_experts
    THEN /\ technical_experts' = technical_experts \cup {<<p, expert_id>>}
         /\ create_notification(expert_id, "expert_assigned", p, "project", p)
         /\ UNCHANGED <<users, glabs, clients, projects, checklist, phase_logs, documents,
                        assessors, messages, resp, today, reminders, sessions, reqs,
                        inflight, templates, committee_members, creating>>
    ELSE NoWrite

assign_expert(u, p, expert_id) ==
    IF ~is_gea(u)
    THEN NoWrite
    ELSE IF p \notin ProjectIds
    THEN NoWrite
    ELSE IF expert_id \notin UserIds
    THEN NoWrite
    ELSE IF users[expert_id].role # "technical_expert"
    THEN NoWrite
    ELSE IF <<p, expert_id>> \notin technical_experts
    THEN /\ technical_experts' = technical_experts \cup {<<p, expert_id>>}
         /\ create_notification(expert_id, "expert_assigned", p, "project", p)
         /\ UNCHANGED <<users, glabs, clients, projects, checklist, phase_logs, documents,
                        assessors, messages, resp, today, reminders, sessions, reqs,
                        inflight, templates, committee_members, creating>>
    ELSE NoWrite

assign_committee_member(u, p, member_id) ==
    IF ~is_gea_admin(u)
    THEN NoWrite
    ELSE IF p \notin ProjectIds
    THEN NoWrite
    ELSE IF member_id \notin UserIds
    THEN NoWrite
    ELSE IF users[member_id].role # "cert_committee"
    THEN NoWrite
    ELSE IF <<p, member_id>> \notin committee_members
    THEN /\ committee_members' = committee_members \cup {<<p, member_id>>}
         /\ create_notification(member_id, "committee_assigned", p, "project", p)
         /\ UNCHANGED <<users, glabs, clients, projects, checklist, phase_logs, documents,
                        assessors, messages, resp, today, reminders, sessions, reqs,
                        inflight, templates, technical_experts, creating>>
    ELSE NoWrite

(***************************************************************************)
(* create_project as the database sees it: generate_reference_number counts *)
(* the GLAB's projects, and the INSERT of the project comes later, with the *)
(* reference computed from that count.  Requests of several workers         *)
(* interleave between the two.                                              *)
(***************************************************************************)
\* the role test, GLAB.query.get and generate_reference_number(glab)
create_project_count(r, u, form_glab, form_client, total_fees) ==
    /\ creating[r].pc # "insert"
    /\ IF users[u].role = "glab_assessor"
       THEN NoWrite
       ELSE LET glab_id == IF is_gea(u) THEN form_glab ELSE users[u].glab_id
            IN  /\ glab_id \in GlabIds
                /\ creating' = [creating EXCEPT ![r] =
                        [pc |-> "insert",
                         row |-> NewProject(u, glab_id, form_client, total_fees)]]
                /\ UNCHANGED <<users, glabs, clients, projects, checklist, phase_logs,
                               documents, assessors, notifications, messages, resp,
                               today, reminders, sessions, reqs, inflight,
                               templates, technical_experts, committee_members>>

\* Project.reference_number is unique=True: the INSERT of a second row with a
\* reference_number that is in the table raises IntegrityError
ReferenceTaken(row) ==
    \E p \in ProjectIds : projects[p].reference_number = row.reference_number

\* db.session.add(project); db.session.commit(), and the rest of the handler
create_project_insert(r) ==
    /\ creating[r].pc = "insert"
    /\ ~ReferenceTaken(creating[r].row)
    /\ projects' = Append(projects, creating[r].row)
    /\ create_default_checklists(Len(projects) + 1)
    /\ phase_logs' = Append(phase_logs, CreatedLog(Len(projects) + 1, creating[r].row.created_by))
    /\ creating' = [creating EXCEPT ![r] = IdleCreate]
    /\ UNCHANGED <<users, glabs, clients, documents, assessors, notifications, messages,
                   resp, today, reminders, sessions, reqs, inflight,
                   templates, technical_experts, committee_members>>

\* the commit raises IntegrityError: the request ends in a 500, nothing written
create_project_IntegrityError(r) ==
    /\ creating[r].pc = "insert"
    /\ ReferenceTaken(creating[r].row)
    /\ creating' = [creating EXCEPT ![r] = [pc |-> "failed", row |-> creating[r].row]]
    /\ UNCHANGED <<users, glabs, clients, projects, checklist, phase_logs,
                   documents, assessors, notifications, messages, resp,
                   today, reminders, sessions, reqs, inflight,
                   templates, technical_experts, committee_members>>

(***************************************************************************)
(* advance_phase as the database sees it: the SELECT of the project, and    *)
(* then the UPDATE of current_phase with the INSERT of the PhaseLog in one  *)
(* commit.  Requests of several workers interleave between the two.         *)
(***************************************************************************)
\* Project.query.get_or_404 and the two tests; old_phase is what was read
advance_phase_read(r, u, p) ==
    /\ inflight[r].pc = "idle"
    /\ IF p \notin ProjectIds
       THEN NoWrite
       ELSE IF ~is_gea(u) /\ users[u].glab_id # projects[p].glab_id
       THEN NoWrite
       ELSE IF projects[p].current_phase >= 8
       THEN NoWrite
       ELSE /\ inflight' = [inflight EXCEPT ![r] =
                    [pc |-> "write", user |-> u, project |-> p,
                     old_phase |-> projects[p].current_phase]]
            /\ UNCHANGED <<users, glabs, clients, projects, checklist, phase_logs, documents,
                           assessors, notifications, messages, resp,
                           today, reminders, sessions, reqs,
                   templates, technical_experts, committee_members, creating>>

\* project.current_phase += 1 is computed from what was read; the UPDATE
\* writes that value, whatever the row holds by now
advance_phase_commit(r) ==
    /\ inflight[r].pc = "write"
    /\ LET a == inflight[r]
       IN  /\ projects' = [projects EXCEPT ![a.project].current_phase = a.old_phase + 1]
           /\ phase_logs' = Append(phase_logs,
                  [project_id |-> a.project, from_phase |-> a.old_phase,
                   to_phase |-> a.old_phase + 1,
                   action |-> "advanced", performed_by |-> a.user])
    /\ inflight' = [inflight EXCEPT ![r] = IdleAdvance]
    /\ UNCHANGED <<users, glabs, clients, checklist, documents, assessors, notifications,
                   messages, resp, today, reminders, sessions, reqs,
                   templates, technical_experts, committee_members, creating>>

\* a database that detects the conflict (SQLite's write lock, or a serializable
\* transaction) refuses the commit of a request whose row has changed
advance_phase_refused(r) ==
    /\ inflight[r].pc = "write"
    /\ projects[inflight[r].project].current_phase # inflight[r].old_phase
    /\ inflight' = [inflight EXCEPT ![r] = IdleAdvance]
    /\ UNCHANGED <<users, glabs, clients, projects, checklist, phase_logs, documents,
                   assessors, notifications, messages, resp, today, reminders, sessions, reqs,
                   templates, technical_experts, committee_members, creating>>

(***************************************************************************)
(* The reminder scan.  before_request_reminder_check runs ahead of every    *)
(* authenticated request; its scan is a sequence of database round trips,   *)
(* and the requests of several workers interleave between them.  A request  *)
(* r holds its own SQLAlchemy session: pending are the ScheduledReminder    *)
(* rows it has added and not yet committed, dirty the rows it has marked.   *)
(***************************************************************************)
ReminderDays == <<60, 30, 15, 5>>

ReminderKey(row) == <<row.reminder_type, row.target_type, row.target_id, row.days_before>>

\* the table, were it declared without the constraint
UniqueConstraint_Absent(rows) == TRUE

\* db.UniqueConstraint('reminder_type', 'target_type', 'target_id', 'days_before')
UniqueConstraint(rows) ==
    \A i, j \in DOMAIN rows : i # j => ReminderKey(rows[i]) # ReminderKey(rows[j])

\* a flush or commit of the rows a request holds raises IntegrityError
IntegrityError(req) == ~UniqueConstraint(reminders \o req.pending)

\* the table after a successful commit of a request's session
Committed(req) ==
    [i \in 1..(Len(reminders) + Len(req.pending)) |->
        IF i > Len(reminders) THEN req.pending[i - Len(reminders)]
        ELSE IF i \in req.dirty THEN [reminders[i] EXCEPT !.sent = TRUE]
        ELSE reminders[i]]

\* the reminder that falls due on day d for GLAB g and the k-th reminder day
GlabItem(g, k, d) ==
    IF /\ glabs[g].next_payment_due # None
       /\ glabs[g].status = "active"
       /\ d = glabs[g].next_payment_due - ReminderDays[k]
    THEN << [reminder_type |-> "license_payment", target_type |-> "glab", target_id |-> g,
             due_date |-> glabs[g].next_payment_due, days_before |-> ReminderDays[k]] >>
    ELSE <<>>

AssessorItem(a, k, d) ==
    IF /\ users[a].role = "glab_assessor"
       /\ users[a].recertification_due # None
       /\ users[a].is_active
       /\ d = users[a].recertification_due - ReminderDays[k]
    THEN << [reminder_type |-> "recertification", target_type |-> "assessor", target_id |-> a,
             due_date |-> users[a].recertification_due, days_before |-> ReminderDays[k]] >>
    ELSE <<>>

\* the two nested loops of the scan, in their order
RECURSIVE GlabWork(_, _)
GlabWork(n, d) ==
    IF n = 0 THEN <<>>
    ELSE GlabWork(n - 1, d)
         \o GlabItem(((n - 1) \div Len(ReminderDays)) + 1, ((n - 1) % Len(ReminderDays)) + 1, d)

RECURSIVE AssessorWork(_, _)
AssessorWork(n, d) ==
    IF n = 0 THEN <<>>
    ELSE AssessorWork(n - 1, d)
         \o AssessorItem(((n - 1) \div Len(ReminderDays)) + 1, ((n - 1) % Len(ReminderDays)) + 1, d)

Work(d) == GlabWork(Len(glabs) * Len(ReminderDays), d)
           \o AssessorWork(Len(users) * Len(ReminderDays), d)

\* ScheduledReminder.query.filter_by(...).first()
Existing(item) ==
    LET hits == {i \in DOMAIN reminders : ReminderKey(reminders[i]) = ReminderKey(item)}
    IN  IF hits = {} THEN None ELSE CHOOSE i \in hits : \A j \in hits : i <= j

\* whom a reminder notifies, in the order of the loops
Recipients(item) ==
    LET ids == [i \in DOMAIN users |-> i]
        GlabAdmin(u) == /\ users[u].glab_id = item.target_id
                        /\ users[u].role = "glab_admin"
                        /\ users[u].is_active
        Gea(u) == is_gea(u) /\ users[u].is_active
    IN  IF item.target_type = "glab"
        THEN SelectSeq(ids, GlabAdmin) \o SelectSeq(ids, Gea)
        ELSE <<item.target_id>>

ReminderNotification(u, item) ==
    IF item.target_type = "glab"
    THEN Notification(u, "license_reminder", item.days_before, "glab", item.target_id)
    ELSE Notification(u, "recertification_reminder", item.days_before, "cpd", None)

\* "Mark as sent", and on to the next reminder of the loops
Marked(req) ==
    LET item == Head(req.work)
        rest == Tail(req.work)
    IN  [req EXCEPT
            !.pending = IF req.existing = None
                        THEN Append(@, [reminder_type |-> item.reminder_type,
                                        target_type |-> item.target_type,
                                        target_id |-> item.target_id,
                                        due_date |-> item.due_date,
                                        days_before |-> item.days_before,
                                        sent |-> TRUE])
                        ELSE @,
            !.dirty = IF req.existing = None THEN @ ELSE @ \cup {req.existing},
            !.work = rest,
            !.existing = None,
            !.recipients = <<>>,
            !.pc = IF rest = <<>> THEN "commit" ELSE "query"]

UnchangedPortal == UNCHANGED <<users, glabs, clients, projects, checklist, phase_logs,
                               documents, assessors, messages, resp, inflight,
                               templates, technical_experts, committee_members, creating>>

\* the exception, were the session flag set in a finally clause
Raise_SetsFlag(r) ==
    /\ reqs' = [reqs EXCEPT ![r] = [IdleRequest EXCEPT !.pc = "failed",
                                                       !.session = reqs[r].session,
                                                       !.today = reqs[r].today]]
    /\ sessions' = [sessions EXCEPT ![reqs[r].session] = reqs[r].today]
    /\ UNCHANGED <<notifications, today, reminders>>
    /\ UnchangedPortal

\* the exception leaves the scan; nothing the session held is written
Raise(r) ==
    /\ reqs' = [reqs EXCEPT ![r] = [IdleRequest EXCEPT !.pc = "failed",
                                                       !.session = reqs[r].session,
                                                       !.today = reqs[r].today]]
    /\ UNCHANGED <<notifications, today, reminders, sessions>>
    /\ UnchangedPortal

\* a request of session s arrives: the flag is read, and the scan starts
before_request_reminder_check(r, s) ==
    /\ reqs[r].pc = "idle"
    /\ IF sessions[s] = today
       THEN NoWrite
       ELSE /\ reqs' = [reqs EXCEPT ![r] =
                    [IdleRequest EXCEPT !.pc = IF Work(today) = <<>> THEN "commit" ELSE "query",
                                        !.session = s,
                                        !.today = today,
                                        !.work = Work(today)]]
            /\ UNCHANGED <<notifications, today, reminders, sessions>>
            /\ UnchangedPortal

\* the query for the existing row of the next reminder (it flushes the session)
check_existing(r) ==
    /\ reqs[r].pc = "query"
    /\ LET req == reqs[r]
           e   == Existing(Head(req.work))
           rc  == Recipients(Head(req.work))
       IN  IF IntegrityError(req)
           THEN Raise(r)
           ELSE /\ reqs' = [reqs EXCEPT ![r] =
                        IF e # None /\ reminders[e].sent
                        THEN [req EXCEPT !.work = Tail(@),
                                         !.pc = IF Tail(req.work) = <<>> THEN "commit" ELSE "query"]
                        ELSE IF rc = <<>>
                        THEN Marked([req EXCEPT !.existing = e])
                        ELSE [req EXCEPT !.existing = e, !.recipients = rc, !.pc = "notify"]]
                /\ UNCHANGED <<notifications, today, reminders, sessions>>
                /\ UnchangedPortal

\* create_notification for the next recipient: it commits the whole session
send_notification(r) ==
    /\ reqs[r].pc = "notify"
    /\ LET req  == reqs[r]
           done == [req EXCEPT !.pending = <<>>, !.dirty = {}, !.recipients = Tail(@)]
       IN  IF IntegrityError(req)
           THEN Raise(r)
           ELSE /\ notifications' = Append(notifications,
                        ReminderNotification(Head(req.recipients), Head(req.work)))
                /\ reminders' = Committed(req)
                /\ reqs' = [reqs EXCEPT ![r] =
                        IF done.recipients = <<>> THEN Marked(done) ELSE done]
                /\ UNCHANGED <<today, sessions>>
                /\ UnchangedPortal

\* the db.session.commit() that ends the scan, and the session flag
check_and_send_reminders_commit(r) ==
    /\ reqs[r].pc = "commit"
    /\ LET req == reqs[r]
       IN  IF IntegrityError(req)
           THEN Raise(r)
           ELSE /\ reminders' = Committed(req)
                /\ sessions' = [sessions EXCEPT ![req.session] = req.today]
                /\ reqs' = [reqs EXCEPT ![r] = IdleRequest]
                /\ UNCHANGED <<notifications, today>>
                /\ UnchangedPortal

\* except Exception: the error is logged and the request goes on
log_reminder_error(r) ==
    /\ reqs[r].pc = "failed"
    /\ reqs' = [reqs EXCEPT ![r] = IdleRequest]
    /\ UNCHANGED <<notifications, today, reminders, sessions>>
    /\ UnchangedPortal

\* GLAB.calculate_next_payment_due, and the commit of the caller.  Day numbers
\* count from the first day of the calendar; a date before it is negative.
calculate_next_payment_due(g) ==
    /\ glabs[g].last_payment_date # None
    /\ glabs' = [glabs EXCEPT ![g].next_payment_due =
                    IF glabs[g].license_type = "annual"
                    THEN glabs[g].last_payment_date + 365
                    ELSE glabs[g].last_payment_date + 365 * 3]
    /\ UNCHANGED <<users, clients, projects, checklist, phase_logs, documents, assessors,
                   notifications, messages, resp, remvars>>

\* midnight (UTC)
NextDay ==
    /\ today' = today + 1
    /\ UNCHANGED <<notifications, reminders, sessions, reqs>>
    /\ UnchangedPortal

(***************************************************************************)
(* Spec: the handlers that write, one request at a time.                    *)
(***************************************************************************)
FeeInputs == {13}
DocumentKeyInputs == {1}
ActionInputs == ReviewActions \cup {"other"}
PhaseInputs == {1, NumPhases}
CustomItems == {i \in DOMAIN checklist : checklist[i].is_custom}
CompletedItems == {i \in DOMAIN checklist : checklist[i].is_completed}
AuxRows == Len(documents) + Cardinality(CustomItems) + Cardinality(CompletedItems)
           + Len(notifications) + Len(messages)
GlabAdvances == Cardinality({i \in DOMAIN phase_logs :
                    phase_logs[i].action = "advanced" /\ ~is_gea(phase_logs[i].performed_by)})

Next ==
    \/ \E u \in UserIds, g \in GlabIds, c \in ClientIds, t \in FeeInputs :
          Len(projects) < MaxProjects /\ create_project(u, g, c, t)
    \/ \E u \in UserIds, p \in 1..MaxProjects :
          (is_gea(u) \/ GlabAdvances < MaxGlabAdvances) /\ advance_phase(u, p)
    \/ \E u \in UserIds, p \in 1..MaxProjects, a \in ActionInputs : review_project(u, p, a)
    \/ \E u \in UserIds, p \in 1..MaxProjects, i \in 1..MaxToggleItemId :
          (i \in CompletedItems \/ AuxRows < MaxAuxRows) /\ toggle_checklist(u, p, i)
    \/ \E u \in UserIds, p \in 1..MaxProjects, ph \in PhaseInputs :
          AuxRows < MaxAuxRows /\ add_checklist_item(u, p, ph)
    \/ \E u \in UserIds, p \in 1..MaxProjects, k \in DocumentKeyInputs, ok \in BOOLEAN :
          AuxRows < MaxAuxRows /\ upload_document(u, p, k, ok)
    \/ \E u \in UserIds, p \in 1..MaxProjects, a \in UserIds :
          AuxRows < MaxAuxRows /\ assign_assessor(u, p, a)
    \/ \E u \in UserIds, p \in 1..MaxProjects, a \in UserIds : remove_assessor(u, p, a)
    \/ \E u \in UserIds, p \in 1..MaxProjects, a \in UserIds : remove_assessor_by_id(u, p, a)

Spec == Init /\ [][Next]_vars

(***************************************************************************)
(* SpecAccess: the routes that read, with the handlers that create what     *)
(* they read.                                                               *)
(***************************************************************************)
MessageInputs == {"", "hello"}

NextAccess ==
    \/ \E u \in UserIds, g \in GlabIds, c \in ClientIds, t \in FeeInputs :
          Len(projects) < MaxProjects /\ create_project(u, g, c, t)
    \/ \E u \in UserIds, p \in 1..MaxProjects, a \in UserIds :
          AuxRows < MaxAuxRows /\ assign_assessor(u, p, a)
    \/ \E u \in UserIds, p \in 1..MaxProjects, a \in UserIds : remove_assessor(u, p, a)
    \/ \E u \in UserIds, p \in 1..MaxProjects, k \in DocumentKeyInputs, ok \in BOOLEAN :
          AuxRows < MaxAuxRows /\ upload_document(u, p, k, ok)
    \/ \E u \in UserIds, d \in 1..MaxAuxRows, a \in ActionInputs : review_document(u, d, a)
    \/ \E u \in UserIds, d \in 1..MaxAuxRows : download_document(u, d)
    \/ \E u \in UserIds, p \in 1..MaxProjects, m \in MessageInputs :
          AuxRows < MaxAuxRows /\ project_chat(u, p, "POST", m)
    \/ \E u \in UserIds, p \in 1..MaxProjects : project_chat(u, p, "GET", "")
    \/ \E u \in UserIds, p \in 1..MaxProjects : get_messages(u, p)
    \/ \E u \in UserIds, p \in 1..MaxProjects : view_project(u, p)
    \/ \E u \in UserIds, c \in ClientIds : view_client(u, c)
    \/ \E u \in UserIds, g \in GlabIds : view_glab(u, g)
    \/ \E u \in UserIds : list_projects(u)
    \/ \E u \in UserIds : list_clients(u)

SpecAccess == Init /\ [][NextAccess]_vars

(***************************************************************************)
(* SpecFee: projects created with every whole total up to MaxTotalFees,     *)
(* and reviewed.                                                            *)
(***************************************************************************)
NextFee ==
    \/ \E u \in UserIds, g \in GlabIds, c \in ClientIds, t \in 0..MaxTotalFees :
          Len(projects) < MaxProjects /\ create_project(u, g, c, t)
    \/ \E u \in UserIds, p \in 1..MaxProjects, a \in ActionInputs : review_project(u, p, a)

SpecFee == Init /\ [][NextFee]_vars

(***************************************************************************)
(* SpecRem: the reminder scan of NumRequests requests at a time, over a     *)
(* database in which a license payment and a recertification fall due.      *)
(* The due dates are columns no handler writes; they are set in the         *)
(* database directly.                                                       *)
(***************************************************************************)
InitRem ==
    /\ users = [InitUsers EXCEPT ![3].recertification_due = 61]
    /\ glabs = [InitGlabs EXCEPT ![1].next_payment_due = 61, ![2].next_payment_due = 62]
    /\ clients = InitClients
    /\ projects = <<>>
    /\ checklist = <<>>
    /\ phase_logs = <<>>
    /\ documents = <<>>
    /\ assessors = {}
    /\ notifications = <<>>
    /\ messages = <<>>
    /\ resp = [op |-> "none", user |-> None, target |-> None, served |-> FALSE, rows |-> {}]
    /\ today = 1
    /\ reminders = <<>>
    /\ sessions = [s \in Sessions |-> None]
    /\ reqs = [r \in Requests |-> IdleRequest]
    /\ inflight = [r \in Requests |-> IdleAdvance]
    /\ templates = <<>>
    /\ technical_experts = {}
    /\ committee_members = {}
    /\ creating = [r \in Requests |-> IdleCreate]

NextRem ==
    \/ \E r \in Requests, s \in Sessions : before_request_reminder_check(r, s)
    \/ \E r \in Requests : check_existing(r)
    \/ \E r \in Requests : send_notification(r)
    \/ \E r \in Requests : check_and_send_reminders_commit(r)
    \/ \E r \in Requests : log_reminder_error(r)
    \/ today < MaxDay /\ NextDay

SpecRem == InitRem /\ [][NextRem]_vars

(***************************************************************************)
(* SpecTx: the transactions of create_project and of the reminder scan, as  *)
(* the database commits them, on the day the reminders of InitRem fall due. *)
(***************************************************************************)
NextTx ==
    \/ \E u \in UserIds, g \in GlabIds, c \in ClientIds, t \in FeeInputs :
          Len(projects) < MaxProjects /\ create_project_add(u, g, c, t)
    \/ \E p \in 1..MaxProjects : create_project_checklists(p)
    \/ \E p \in 1..MaxProjects : create_project_log(p)
    \/ \E r \in Requests, s \in Sessions : before_request_reminder_check(r, s)
    \/ \E r \in Requests : check_existing(r)
    \/ \E r \in Requests : send_notification(r)
    \/ \E r \in Requests : check_and_send_reminders_commit(r)
    \/ \E r \in Requests : log_reminder_error(r)

SpecTx == InitRem /\ [][NextTx]_vars

(***************************************************************************)
(* SpecUsers: the accounts.                                                 *)
(***************************************************************************)
UsernameInputs == {"admin", "assessor2", "new"}
EmailInputs == {"admin@gea.org", "new@gea.org"}

NextUsers ==
    \/ \E u \in UserIds, n \in UsernameInputs, e \in EmailInputs, r \in Roles,
          g \in GlabIds \cup {None} :
          Len(users) < MaxUsers /\ create_user(u, n, e, r, g)
    \/ \E u \in UserIds, t \in 1..MaxUsers : toggle_user(u, t)
    \/ \E n \in UsernameInputs, ok \in BOOLEAN : login(n, ok)

SpecUsers == Init /\ [][NextUsers]_vars

(***************************************************************************)
(* SpecRoles: the handlers that test the caller's role, with a user of      *)
(* every role.                                                              *)
(***************************************************************************)
NextRoles ==
    \/ \E u \in UserIds, r \in Roles, g \in {None, 1} :
          Len(users) < MaxUsers /\ create_user(u, "new", "new@gea.org", r, g)
    \/ \E u \in UserIds, g \in GlabIds :
          Len(clients) < MaxClients /\ create_client(u, g)
    \/ \E u \in UserIds, t \in FeeInputs :
          Len(projects) < MaxProjects /\ create_project(u, 1, 1, t)
    \/ \E u \in UserIds, p \in 1..MaxProjects, k \in DocumentKeyInputs, ok \in BOOLEAN :
          AuxRows < MaxAuxRows /\ upload_document(u, p, k, ok)
    \/ \E u \in UserIds, d \in 1..MaxAuxRows, a \in ActionInputs : review_document(u, d, a)
    \/ \E u \in UserIds, p \in 1..MaxProjects, i \in 1..MaxToggleItemId :
          (i \in CompletedItems \/ AuxRows < MaxAuxRows) /\ toggle_checklist(u, p, i)

SpecRoles == Init /\ [][NextRoles]_vars

(***************************************************************************)
(* SpecAdv: advance_phase requests of NumRequests workers, interleaved.     *)
(***************************************************************************)
Advancing == Cardinality({r \in Requests : inflight[r].pc = "write"})

NextAdv ==
    \/ \E u \in UserIds, g \in GlabIds, c \in ClientIds, t \in FeeInputs :
          Len(projects) < MaxProjects /\ create_project(u, g, c, t)
    \/ \E r \in Requests, u \in UserIds, p \in 1..MaxProjects :
          Len(phase_logs) + Advancing < MaxPhaseLogs /\ advance_phase_read(r, u, p)
    \/ \E r \in Requests : advance_phase_commit(r)
    \/ \E r \in Requests : advance_phase_refused(r)

SpecAdv == Init /\ [][NextAdv]_vars

(***************************************************************************)
(* SpecRearm: the reminder scan over a database in which the payment of     *)
(* GLAB 1 has been recorded (304 days before the calendar starts, then 303) *)
(* and the due date is computed again from it.                              *)
(***************************************************************************)
InitRearm ==
    /\ users = InitUsers
    /\ glabs = [InitGlabs EXCEPT ![1].next_payment_due = 61, ![1].last_payment_date = -303]
    /\ clients = InitClients
    /\ projects = <<>>
    /\ checklist = <<>>
    /\ phase_logs = <<>>
    /\ documents = <<>>
    /\ assessors = {}
    /\ notifications = <<>>
    /\ messages = <<>>
    /\ resp = [op |-> "none", user |-> None, target |-> None, served |-> FALSE, rows |-> {}]
    /\ today = 1
    /\ reminders = <<>>
    /\ sessions = [s \in Sessions |-> None]
    /\ reqs = [r \in Requests |-> IdleRequest]
    /\ inflight = [r \in Requests |-> IdleAdvance]
    /\ templates = <<>>
    /\ technical_experts = {}
    /\ committee_members = {}
    /\ creating = [r \in Requests |-> IdleCreate]

NextRearm ==
    \/ \E r \in Requests, s \in Sessions : before_request_reminder_check(r, s)
    \/ \E r \in Requests : check_existing(r)
    \/ \E r \in Requests : send_notification(r)
    \/ \E r \in Requests : check_and_send_reminders_commit(r)
    \/ \E r \in Requests : log_reminder_error(r)
    \/ \E g \in GlabIds : calculate_next_payment_due(g)
    \/ today < MaxDay /\ NextDay

SpecRearm == InitRearm /\ [][NextRearm]_vars

(***************************************************************************)
(* SpecTpl: the template library.                                           *)
(***************************************************************************)
MaxTemplates == 4
TemplatePhaseInputs == {1, 2}
TemplateKeyInputs == {1, 2}

NextTpl ==
    \E u \in UserIds, ph \in TemplatePhaseInputs, k \in TemplateKeyInputs, ok \in BOOLEAN :
        Len(templates) < MaxTemplates /\ upload_template(u, ph, k, ok)

SpecTpl == Init /\ [][NextTpl]_vars

(***************************************************************************)
(* SpecCreate: create_project requests of NumRequests workers, interleaved. *)
(***************************************************************************)
MaxCreated == 2
Creating == Cardinality({r \in Requests : creating[r].pc = "insert"})

NextCreate ==
    \/ \E r \in Requests, u \in UserIds, g \in GlabIds, c \in ClientIds, t \in FeeInputs :
          Len(projects) + Creating < MaxCreated /\ create_project_count(r, u, g, c, t)
    \/ \E r \in Requests : create_project_insert(r)
    \/ \E r \in Requests : create_project_IntegrityError(r)

SpecCreate == Init /\ [][NextCreate]_vars

(***************************************************************************)
(* SpecAssign: the assignment of assessors, technical experts and committee *)
(* members, after the GEA admin has created a technical expert and a        *)
(* committee member.                                                        *)
(***************************************************************************)
MaxAssignments == 3

InitAssign ==
    /\ users = InitUsers \o <<
          [username |-> "expert", email |-> "expert@gea.org", role |-> "technical_expert",
           glab_id |-> None, is_active |-> TRUE, recertification_due |-> None],
          [username |-> "member", email |-> "member@gea.org", role |-> "cert_committee",
           glab_id |-> None, is_active |-> TRUE, recertification_due |-> None] >>
    /\ glabs = InitGlabs
    /\ clients = InitClients
    /\ projects = <<>>
    /\ checklist = <<>>
    /\ phase_logs = <<>>
    /\ documents = <<>>
    /\ assessors = {}
    /\ notifications = <<>>
    /\ messages = <<>>
    /\ resp = [op |-> "none", user |-> None, target |-> None, served |-> FALSE, rows |-> {}]
    /\ today = 1
    /\ reminders = <<>>
    /\ sessions = [s \in Sessions |-> None]
    /\ reqs = [r \in Requests |-> IdleRequest]
    /\ inflight = [r \in Requests |-> IdleAdvance]
    /\ templates = <<>>
    /\ technical_experts = {}
    /\ committee_members = {}
    /\ creating = [r \in Requests |-> IdleCreate]

NextAssign ==
    \/ \E u \in UserIds, g \in GlabIds, c \in ClientIds, t \in FeeInputs :
          Len(projects) < MaxProjects /\ create_project(u, g, c, t)
    \/ \E u \in UserIds, p \in 1..MaxProjects, a \in UserIds :
          Len(notifications) < MaxAssignments /\ assign_assessor(u, p, a)
    \/ \E u \in UserIds, p \in 1..MaxProjects, a \in UserIds : remove_assessor(u, p, a)
    \/ \E u \in UserIds, p \in 1..MaxProjects, a \in UserIds :
          Len(notifications) < MaxAssignments /\ assign_expert(u, p, a)
    \/ \E u \in UserIds, p \in 1..MaxProjects, a \in UserIds :
          Len(notifications) < MaxAssignments /\ assign_committee_member(u, p, a)

SpecAssign == InitAssign /\ [][NextAssign]_vars

(***************************************************************************)
(* SpecToggle: toggle_checklist over two projects, with the first default   *)
(* item of each.                                                            *)
(***************************************************************************)
MaxToggleProjects == 2
ToggleItemInputs == {1, Len(DefaultItems(1, NumPhases)) + 1}

NextToggle ==
    \/ \E u \in UserIds, g \in GlabIds, c \in ClientIds, t \in FeeInputs :
          Len(projects) < MaxToggleProjects /\ create_project(u, g, c, t)
    \/ \E u \in UserIds, p \in 1..MaxToggleProjects, i \in ToggleItemInputs :
          toggle_checklist(u, p, i)

SpecToggle == Init /\ [][NextToggle]_vars

(***************************************************************************)
(* Properties of the phase engine (Spec).                                   *)
(***************************************************************************)
\* a user outside GEA whose GLAB is not the project's
Outsider(u, p) == ~is_gea(u) /\ users[u].glab_id # projects[p].glab_id

\* the project has a required, uncompleted checklist item at its current phase
OutstandingItems(p) ==
    \E i \in DOMAIN checklist :
        /\ checklist[i].project_id = p
        /\ checklist[i].phase_number = projects[p].current_phase
        /\ checklist[i].is_required
        /\ ~checklist[i].is_completed

\* PHASES[ph] lists GEA review criteria: the phase is reviewed by GEA
RequiresGeaApproval(ph) == GeaReviewChecklistLen[ph] > 0

\* C1: current_phase never decreases, and a step that changes it is an
\* advance_phase request on that project.
C1_PhaseMonotone ==
    [][\A p \in ProjectIds :
          /\ projects'[p].current_phase >= projects[p].current_phase
          /\ projects'[p].current_phase # projects[p].current_phase
                => \E u \in UserIds : advance_phase(u, p)]_vars

C1_Witness ==
    \E p \in ProjectIds :
        /\ projects[p].current_phase = 3
        /\ projects[p].gea_status = "denied"
        /\ AuxRows = 1

\* C2: an advance_phase request on a project with an outstanding required
\* checklist item at its current phase changes neither current_phase nor the
\* PhaseLog.
C2_ChecklistGate ==
    [][\A u \in UserIds, p \in ProjectIds :
          (advance_phase(u, p) /\ OutstandingItems(p))
              => UNCHANGED <<projects, phase_logs>>]_vars

\* C3: an advance_phase request on a project whose current phase requires GEA
\* approval and whose gea_status is not 'approved' leaves current_phase unchanged.
C3_GeaGate ==
    [][\A u \in UserIds, p \in ProjectIds :
          (/\ advance_phase(u, p)
           /\ RequiresGeaApproval(projects[p].current_phase)
           /\ projects[p].gea_status # "approved")
              => projects'[p].current_phase = projects[p].current_phase]_vars

\* C4: an advance_phase request that succeeds on a project in phase p < 8 sets
\* current_phase to p + 1 and appends exactly one PhaseLog row, from p to p + 1,
\* action 'advanced', performed by the acting user.
C4_AdvanceByOne ==
    [][\A u \in UserIds, p \in ProjectIds :
          (advance_phase(u, p) /\ projects' # projects /\ projects[p].current_phase < 8)
              => /\ projects'[p].current_phase = projects[p].current_phase + 1
                 /\ Len(phase_logs') = Len(phase_logs) + 1
                 /\ SubSeq(phase_logs', 1, Len(phase_logs)) = phase_logs
                 /\ phase_logs'[Len(phase_logs')] =
                        [project_id |-> p, from_phase |-> projects[p].current_phase,
                         to_phase |-> projects[p].current_phase + 1,
                         action |-> "advanced", performed_by |-> u]]_vars

C4_Witness ==
    \E p \in ProjectIds, i \in DOMAIN phase_logs :
        /\ projects[p].current_phase = 5
        /\ phase_logs[i] = [project_id |-> p, from_phase |-> 4, to_phase |-> 5,
                            action |-> "advanced", performed_by |-> 2]

\* C5: current_phase is always in 1..8, and an advance_phase request on a
\* project in phase 8 changes neither the project nor the PhaseLog.
C5_PhaseRange ==
    /\ [](\A p \in ProjectIds : projects[p].current_phase \in 1..8)
    /\ [][\A u \in UserIds, p \in ProjectIds :
            (advance_phase(u, p) /\ projects[p].current_phase = 8)
                => UNCHANGED <<projects, phase_logs>>]_vars

C5_Witness ==
    \E p \in ProjectIds :
        /\ projects[p].current_phase = 8
        /\ Len(phase_logs) = 8

\* C7: no request by a user outside the project's GLAB (and outside GEA) to
\* advance_phase, assign_assessor, remove_assessor, remove_assessor_by_id or
\* toggle_checklist changes the project's phase, assessors or checklist items.
C7_NoForeignWrite ==
    [][\A u \in UserIds, p \in ProjectIds :
          (/\ Outsider(u, p)
           /\ \/ advance_phase(u, p)
              \/ \E a \in UserIds : assign_assessor(u, p, a)
              \/ \E a \in UserIds : remove_assessor(u, p, a)
              \/ \E a \in UserIds : remove_assessor_by_id(u, p, a)
              \/ \E i \in DOMAIN checklist : toggle_checklist(u, p, i))
              => UNCHANGED <<projects, assessors, checklist>>]_vars

\* C14: PhaseLog is append-only: no step changes or removes a row; rows are
\* added only by create_project (from None to 1, 'created') and by an
\* advance_phase request that succeeds ('advanced').
C14_AppendOnly ==
    [][/\ Len(phase_logs') >= Len(phase_logs)
       /\ SubSeq(phase_logs', 1, Len(phase_logs)) = phase_logs
       /\ \A i \in (DOMAIN phase_logs') \ (DOMAIN phase_logs) :
             \/ /\ phase_logs'[i].action = "created"
                /\ phase_logs'[i].from_phase = None
                /\ phase_logs'[i].to_phase = 1
                /\ \E u \in UserIds, g \in GlabIds, c \in ClientIds, t \in FeeInputs :
                      create_project(u, g, c, t)
             \/ /\ phase_logs'[i].action = "advanced"
                /\ projects' # projects
                /\ \E u \in UserIds : advance_phase(u, phase_logs'[i].project_id)]_vars

\* a log of a creation and two advances, kept through a review
C14_Witness ==
    /\ Len(phase_logs) = 3
    /\ phase_logs[1].action = "created"
    /\ phase_logs[3] = [project_id |-> 1, from_phase |-> 2, to_phase |-> 3,
                        action |-> "advanced", performed_by |-> 1]
    /\ projects[1].gea_status = "changes_requested"

\* the ChecklistItem ids of project p at phase ph, in a checklist table
ItemsOf(table, p, ph) ==
    {i \in DOMAIN table : table[i].project_id = p /\ table[i].phase_number = ph}

\* C16: after create_project succeeds the new project is at phase 1 with
\* gea_status 'pending' and has, for every phase 1..8, exactly one item per
\* entry of the phase's default_checklist, in template order (order = index),
\* each required, not custom, not completed; any further item comes from
\* add_checklist_item by a GEA admin, after the highest order of its phase.
C16_DefaultChecklist ==
    [][/\ \A u \in UserIds, g \in GlabIds, c \in ClientIds, t \in FeeInputs :
             (Len(projects') > Len(projects) /\ create_project(u, g, c, t))
                 => LET pid == Len(projects')
                    IN  /\ projects'[pid].current_phase = 1
                        /\ projects'[pid].gea_status = "pending"
                        /\ \A i \in DOMAIN checklist' :
                               checklist'[i].project_id = pid
                                   => checklist'[i].phase_number \in 1..8
                        /\ \A ph \in 1..8 :
                              LET ids == ItemsOf(checklist', pid, ph)
                              IN  /\ Cardinality(ids) = DefaultChecklistLen[ph]
                                  /\ {checklist'[i].order : i \in ids}
                                        = 0..(DefaultChecklistLen[ph] - 1)
                                  /\ \A i, j \in ids :
                                        i < j => checklist'[i].order < checklist'[j].order
                                  /\ \A i \in ids : /\ checklist'[i].is_required
                                                     /\ ~checklist'[i].is_custom
                                                     /\ ~checklist'[i].is_completed
       /\ (projects' = projects /\ Len(checklist') # Len(checklist))
             => /\ Len(checklist') = Len(checklist) + 1
                /\ SubSeq(checklist', 1, Len(checklist)) = checklist
                /\ LET new == checklist'[Len(checklist')]
                   IN  /\ new.is_custom
                       /\ \E u \in UserIds :
                             /\ users[u].role = "gea_admin"
                             /\ add_checklist_item(u, new.project_id, new.phase_number)
                       /\ \A i \in ItemsOf(checklist, new.project_id, new.phase_number) :
                             checklist[i].order < new.order]_vars

\* a project with its 79 default items and one custom item, the ninth of phase 1
C16_Witness ==
    /\ Len(checklist) = 80
    /\ checklist[80].is_custom
    /\ checklist[80].phase_number = 1
    /\ checklist[80].order = 8

(***************************************************************************)
(* Properties of the access control (SpecAccess).                           *)
(***************************************************************************)
\* C6: a page or message list of a project, client or GLAB is never served to
\* a user outside GEA whose GLAB is another one, and the project and client
\* lists served to a user outside GEA hold rows of the user's own GLAB only.
C6_NoForeignRead ==
    /\ (resp.op \in {"view_project", "project_chat", "get_messages"}
            /\ Outsider(resp.user, resp.target)) => ~resp.served
    /\ (resp.op = "view_client" /\ ~is_gea(resp.user)
            /\ clients[resp.target].glab_id # users[resp.user].glab_id) => ~resp.served
    /\ (resp.op = "view_glab" /\ ~is_gea(resp.user)
            /\ resp.target # users[resp.user].glab_id) => ~resp.served
    /\ (resp.op = "list_projects" /\ ~is_gea(resp.user))
            => \A p \in resp.rows : projects[p].glab_id = users[resp.user].glab_id
    /\ (resp.op = "list_clients" /\ ~is_gea(resp.user))
            => \A c \in resp.rows : clients[c].glab_id = users[resp.user].glab_id

\* C8: an upload_document request by a user outside the project's GLAB (and
\* outside GEA) creates no Document row, and no document of such a project is
\* served to that user by download_document.
C8_NoForeignDocument ==
    /\ [][\A u \in UserIds, p \in ProjectIds, k \in DocumentKeyInputs, ok \in BOOLEAN :
            (upload_document(u, p, k, ok) /\ Outsider(u, p)) => documents' = documents]_vars
    /\ []((resp.op = "download_document"
             /\ Outsider(resp.user, documents[resp.target].project_id)) => ~resp.served)

(***************************************************************************)
(* Properties of the fee split (SpecFee).                                   *)
(***************************************************************************)
\* C9: for every project gea_fee + glab_revenue == total_assessment_fees, with
\* gea_fee 15% and glab_revenue 85% of the total, and no operation after
\* create_project changes the three fee fields.
C9_FeeSplit ==
    /\ [](\A p \in ProjectIds :
            /\ projects[p].gea_fee = GeaFeeOf(projects[p].total_assessment_fees)
            /\ projects[p].glab_revenue = GlabRevenueOf(projects[p].total_assessment_fees)
            /\ FloatAdd(projects[p].gea_fee, projects[p].glab_revenue)
                 = projects[p].total_assessment_fees)
    /\ [][\A p \in ProjectIds :
            /\ projects'[p].total_assessment_fees = projects[p].total_assessment_fees
            /\ projects'[p].gea_fee = projects[p].gea_fee
            /\ projects'[p].glab_revenue = projects[p].glab_revenue]_vars

(***************************************************************************)
(* Properties of the reminder scan (SpecRem).                               *)
(***************************************************************************)
\* C10: in every reachable state, with the scan running in several requests at
\* once, the ScheduledReminder table holds at most one row per
\* (reminder_type, target_type, target_id, days_before).
C10_OneRowPerKey ==
    \A i, j \in DOMAIN reminders :
        ReminderKey(reminders[i]) = ReminderKey(reminders[j]) => i = j

\* two requests ran the scan at once: one committed the row of a reminder, and
\* the other, which had added a row of the same key, was refused
C10_Witness ==
    \E r \in Requests :
        /\ reqs[r].pc = "failed"
        /\ \E i \in DOMAIN reminders :
              reminders[i].reminder_type = "license_payment" /\ reminders[i].target_id = 1
        /\ \E q \in Requests : q # r /\ reqs[q].pc # "idle"

\* C11: for each recipient and each (reminder_type, target, days_before) at
\* most one reminder Notification row is ever created, also when two requests
\* run the scan at once on the reminder day.
C11_OneNotificationPerReminder ==
    \A i, j \in DOMAIN notifications :
        (/\ notifications[i].notification_type \in {"license_reminder", "recertification_reminder"}
         /\ notifications[i] = notifications[j])
            => i = j

(***************************************************************************)
(* Properties of the transactions (SpecTx).                                 *)
(***************************************************************************)
\* the default ChecklistItems of project p are all there
HasDefaultChecklist(p) ==
    \A ph \in Phases :
        Cardinality({i \in DOMAIN checklist :
            /\ checklist[i].project_id = p
            /\ checklist[i].phase_number = ph
            /\ ~checklist[i].is_custom}) = DefaultChecklistLen[ph]

HasCreatedLog(p) ==
    \E i \in DOMAIN phase_logs :
        phase_logs[i].project_id = p /\ phase_logs[i].action = "created"

\* the ScheduledReminder row a reminder Notification goes with, marked sent
HasSentReminder(n) ==
    \E i \in DOMAIN reminders :
        /\ reminders[i].sent
        /\ reminders[i].days_before = n.about
        /\ IF n.notification_type = "license_reminder"
           THEN reminders[i].reminder_type = "license_payment" /\ reminders[i].target_id = n.link_id
           ELSE reminders[i].reminder_type = "recertification" /\ reminders[i].target_id = n.user_id

\* C12: a request's writes are all-or-nothing: in every committed state a
\* Project row exists only together with its default ChecklistItems and its
\* 'created' PhaseLog row, and a reminder Notification only together with the
\* matching ScheduledReminder row marked sent.
C12_AllOrNothing ==
    /\ \A p \in ProjectIds : HasDefaultChecklist(p) /\ HasCreatedLog(p)
    /\ \A i \in DOMAIN notifications :
          notifications[i].notification_type \in {"license_reminder", "recertification_reminder"}
              => HasSentReminder(notifications[i])

(***************************************************************************)
(* Properties of the role tests (SpecRoles).                                *)
(***************************************************************************)
\* the review columns of a Document row
ReviewColumns(doc) == <<doc.status, doc.review_notes, doc.reviewed_by, doc.reviewed_at>>

\* C13: a Document is created 'pending'; its review columns change only in a
\* review_document request of a GEA user with action approved,
\* changes_requested or denied; a request of another role or with another
\* action leaves them unchanged; the status is always one of the four values.
C13_DocumentStatus ==
    /\ [](\A d \in DOMAIN documents : documents[d].status \in GeaStatuses)
    /\ [][/\ \A d \in DOMAIN documents' \ DOMAIN documents : documents'[d].status = "pending"
          /\ \A d \in DOMAIN documents :
                ReviewColumns(documents'[d]) # ReviewColumns(documents[d])
                    => \E u \in UserIds, a \in ReviewActions :
                          /\ users[u].role \in {"gea_admin", "gea_staff"}
                          /\ review_document(u, d, a)
          /\ \A u \in UserIds, d \in DOMAIN documents, a \in ActionInputs :
                (/\ review_document(u, d, a)
                 /\ \/ users[u].role \notin {"gea_admin", "gea_staff"}
                    \/ a \notin {"approved", "changes_requested", "denied"})
                    => UNCHANGED documents]_vars

\* a document uploaded by a GLAB administrator and denied by a gea_staff user
C13_Witness ==
    \E d \in DOMAIN documents :
        /\ documents[d].status = "denied"
        /\ users[documents[d].uploaded_by].role = "glab_admin"
        /\ users[documents[d].reviewed_by].role = "gea_staff"

\* C15: only a glab_admin or a glab_assessor changes a ChecklistItem's
\* completion: a toggle_checklist request of a user of any other role leaves
\* is_completed and completed_by of every item unchanged.
C15_OnlyGlabSideToggles ==
    [][\A u \in UserIds, p \in ProjectIds, i \in DOMAIN checklist :
          (toggle_checklist(u, p, i) /\ users[u].role \notin {"glab_admin", "glab_assessor"})
              => UNCHANGED checklist]_vars

(***************************************************************************)
(* Properties of the session flag (SpecRem).                                *)
(***************************************************************************)
\* request r ends its scan without an exception in this step
ScanCompletes(r) == reqs[r].pc \in {"query", "notify", "commit"} /\ reqs'[r].pc = "idle"

C18_SoftDeactivation ==
    [][/\ Len(users') >= Len(users)
       /\ Len(users') > Len(users)
             => /\ Len(users') = Len(users) + 1
                /\ \E u \in UserIds, n \in UsernameInputs, e \in EmailInputs, r \in Roles,
                      g \in GlabIds \cup {None} :
                      users[u].role = "gea_admin" /\ create_user(u, n, e, r, g)
       /\ \A i \in DOMAIN users :
             /\ users'[i] = [users[i] EXCEPT !.is_active = users'[i].is_active]
             /\ users'[i].is_active # users[i].is_active
                   => \E u \in UserIds : users[u].role = "gea_admin" /\ toggle_user(u, i)
       /\ \A n \in UsernameInputs, i \in DOMAIN users :
             (login(n, TRUE) /\ users[i].username = n)
                 => (resp'.served <=> users[i].is_active)
       /\ \A n \in UsernameInputs : login(n, FALSE) => ~resp'.served]_vars

\* a user created by the admin and a deactivated user whose login was rejected
C18_Witness ==
    /\ Len(users) = 4
    /\ ~users[3].is_active
    /\ resp = [op |-> "login", user |-> None, target |-> 3, served |-> FALSE, rows |-> {}]

\* C19: create_client by a user whose role is client_user, technical_expert or
\* cert_committee creates no Client row.
C19_ClientsByStaff ==
    [][\A u \in UserIds, g \in GlabIds :
          (/\ create_client(u, g)
           /\ users[u].role \in {"client_user", "technical_expert", "cert_committee"})
              => clients' = clients]_vars

(***************************************************************************)
(* Properties of interleaved advances (SpecAdv).                            *)
(***************************************************************************)
\* the 'advanced' PhaseLog rows of project p
AdvancedRows(p) ==
    {i \in DOMAIN phase_logs : phase_logs[i].project_id = p /\ phase_logs[i].action = "advanced"}

\* C20: under interleaved advance_phase requests, in every reachable state the
\* number of 'advanced' PhaseLog rows of a project equals current_phase - 1,
\* and no two of them have the same from_phase.
C20_NoLostAdvance ==
    \A p \in ProjectIds :
        /\ Cardinality(AdvancedRows(p)) = projects[p].current_phase - 1
        /\ \A i, j \in AdvancedRows(p) :
              phase_logs[i].from_phase = phase_logs[j].from_phase => i = j

\* C22: a successful advance_phase changes, of the project, only current_phase
\* (every other column, gea_status and the fees among them, keeps its value),
\* and leaves checklist items, documents and assessor assignments as they are.
C22_AdvanceFrame ==
    [][\A u \in UserIds, p \in ProjectIds :
          (Len(phase_logs') > Len(phase_logs) /\ Len(projects') = Len(projects)
           /\ advance_phase(u, p))
              => /\ projects' = [projects EXCEPT ![p].current_phase = projects'[p].current_phase]
                 /\ checklist' = checklist
                 /\ documents' = documents
                 /\ assessors' = assessors]_vars

C22_Witness ==
    \E p \in ProjectIds :
        /\ projects[p].gea_status = "approved"
        /\ \E i \in DOMAIN phase_logs :
               /\ phase_logs[i].project_id = p
               /\ phase_logs[i].action = "advanced"
               /\ phase_logs[i].to_phase = projects[p].current_phase
        /\ \E d \in DOMAIN documents :
               documents[d].project_id = p /\ documents[d].phase_number < projects[p].current_phase

(***************************************************************************)
(* Properties of reminders over a changed due date (SpecRearm).             *)
(***************************************************************************)
\* C21: reminders are re-armed for a new due date: when the scan reaches a
\* reminder that falls due today and the ScheduledReminder row of its
\* (reminder_type, target, days_before) was sent for an earlier due date, it
\* still goes on to create the notifications.
C21_Rearmed ==
    [][\A r \in Requests :
          (/\ reqs[r].pc = "query"
           /\ check_existing(r)
           /\ ~IntegrityError(reqs[r])
           /\ Existing(Head(reqs[r].work)) # None
           /\ reminders[Existing(Head(reqs[r].work))].sent
           /\ reminders[Existing(Head(reqs[r].work))].due_date < Head(reqs[r].work).due_date)
              => reqs'[r].pc = "notify"]_vars

(***************************************************************************)
(* Properties of the template library (SpecTpl).                            *)
(***************************************************************************)
\* the templates of one (phase_number, document_key) slot
SlotTemplates(ph, k) ==
    {i \in DOMAIN templates : templates[i].phase_number = ph /\ templates[i].document_key = k}

\* C23: after any sequence of upload_template requests, the active templates of
\* a slot are exactly its most recently uploaded one; and an upload deletes no
\* template: every older row is still there, changed at most in is_active.
C23_OneActiveTemplate ==
    /\ [](\A ph \in TemplatePhaseInputs, k \in TemplateKeyInputs :
            \A i \in SlotTemplates(ph, k) :
                templates[i].is_active <=> (\A j \in SlotTemplates(ph, k) : j <= i))
    /\ [][/\ Len(templates') >= Len(templates)
          /\ \A i \in DOMAIN templates :
                templates'[i] = [templates[i] EXCEPT !.is_active = templates'[i].is_active]]_vars

C23_Witness ==
    \E i, j \in DOMAIN templates :
        /\ i < j
        /\ templates[i].phase_number = templates[j].phase_number
        /\ templates[i].document_key = templates[j].document_key
        /\ ~templates[i].is_active
        /\ templates[j].is_active
        /\ \E k \in DOMAIN templates :
               templates[k].is_active /\ templates[k].phase_number # templates[i].phase_number

(***************************************************************************)
(* Properties of project creation under interleaving (SpecCreate).          *)
(***************************************************************************)
\* C24: no two projects share a reference_number, and no create_project
\* request fails on the uniqueness of reference_number, also when two projects
\* of one GLAB are created at the same time.
C24_UniqueReference ==
    /\ \A p, q \in ProjectIds :
          projects[p].reference_number = projects[q].reference_number => p = q
    /\ \A r \in Requests : creating[r].pc # "failed"

(***************************************************************************)
(* Properties of the assignments (SpecAssign).                              *)
(***************************************************************************)
\* C25: every assessor of a project belongs to the project's GLAB, every
\* technical expert has the role 'technical_expert' and every committee member
\* the role 'cert_committee'; and assigning a user who is already assigned
\* changes neither the assignments nor the notifications.
C25_Assignments ==
    /\ [](/\ \A a \in assessors : users[a[2]].glab_id = projects[a[1]].glab_id
          /\ \A e \in technical_experts : users[e[2]].role = "technical_expert"
          /\ \A m \in committee_members : users[m[2]].role = "cert_committee")
    /\ [][\A u \in UserIds, p \in ProjectIds, a \in UserIds :
             /\ (<<p, a>> \in assessors /\ assign_assessor(u, p, a))
                   => UNCHANGED <<assessors, notifications>>
             /\ (<<p, a>> \in technical_experts /\ assign_expert(u, p, a))
                   => UNCHANGED <<technical_experts, notifications>>
             /\ (<<p, a>> \in committee_members /\ assign_committee_member(u, p, a))
                   => UNCHANGED <<committee_members, notifications>>]_vars

C25_Witness ==
    \E p \in ProjectIds :
        /\ \E a \in UserIds : <<p, a>> \in assessors
        /\ \E e \in UserIds : <<p, e>> \in technical_experts
        /\ \E m \in UserIds : <<p, m>> \in committee_members
        /\ Len(notifications) = 3
        /\ \A i, j \in DOMAIN notifications : notifications[i] = notifications[j] => i = j

(***************************************************************************)
(* Properties of the assessors' access (Spec).                              *)
(***************************************************************************)
\* C26: a request of a glab_assessor who is not among the project's assessors
\* is denied, also when the assessor belongs to the project's GLAB: such an
\* advance_phase request leaves the phase and the PhaseLog as they are, and
\* such an upload_document request adds no document.
C26_AssignedOnly ==
    [][\A u \in UserIds, p \in ProjectIds :
          (users[u].role = "glab_assessor" /\ <<p, u>> \notin assessors)
              => /\ advance_phase(u, p) => UNCHANGED <<projects, phase_logs>>
                 /\ \A k \in DocumentKeyInputs, ok \in BOOLEAN :
                       upload_document(u, p, k, ok) => documents' = documents]_vars

(***************************************************************************)
(* Properties of the project's references (Spec).                           *)
(***************************************************************************)
\* C27: every project refers to one GLAB and one Client, and the client is a
\* client of the project's GLAB, whichever user created the project.
C27_ClientOfGlab ==
    \A p \in ProjectIds :
        /\ projects[p].glab_id \in GlabIds
        /\ projects[p].client_id \in ClientIds
        /\ clients[projects[p].client_id].glab_id = projects[p].glab_id

(***************************************************************************)
(* Properties of the administrators (SpecUsers).                            *)
(***************************************************************************)
\* the active GEA admins
ActiveAdmins(rows) ==
    {i \in DOMAIN rows : rows[i].role = "gea_admin" /\ rows[i].is_active}

\* C28: a toggle_user or create_user request of an active GEA admin leaves at
\* least one active GEA admin; a toggle_user request on the caller's own
\* account changes nothing; and a toggle_user request that succeeds changes
\* only is_active of its target, to the opposite value, so that two of them on
\* one target restore it.
C28_AdminRemains ==
    [][\A u \in UserIds :
          /\ \A t \in UserIds :
                (u \in ActiveAdmins(users) /\ toggle_user(u, t))
                    => ActiveAdmins(users') # {}
          /\ \A n \in UsernameInputs, e \in EmailInputs, r \in Roles, g \in GlabIds \cup {None} :
                (u \in ActiveAdmins(users) /\ create_user(u, n, e, r, g))
                    => ActiveAdmins(users') # {}
          /\ toggle_user(u, u) => users' = users
          /\ \A t \in UserIds :
                (toggle_user(u, t) /\ Len(users') = Len(users))
                    => users' = [users EXCEPT ![t].is_active = ~users[t].is_active]]_vars

\* a second GEA admin was created and then deactivated by the first
C28_Witness ==
    /\ Len(users) = 4
    /\ users[4].role = "gea_admin"
    /\ ~users[4].is_active
    /\ ActiveAdmins(users) = {1}

(***************************************************************************)
(* Properties of the checklist toggle (SpecToggle).                         *)
(***************************************************************************)
\* C29: a toggle_checklist request whose item belongs to another project than
\* the one of the URL changes no item; and a request that does toggle an item
\* leaves completed_by set to the caller exactly when the item is completed,
\* and cleared when it is not.
C29_ItemOfProject ==
    [][\A u \in UserIds, p \in ProjectIds, i \in DOMAIN checklist :
          /\ (toggle_checklist(u, p, i) /\ checklist[i].project_id # p)
                => UNCHANGED checklist
          /\ (toggle_checklist(u, p, i) /\ checklist' # checklist)
                => checklist'[i].completed_by =
                       IF checklist'[i].is_completed THEN u ELSE None]_vars

====
